---- MODULE Spec2Model ----
(***************************************************************************)
(* Model of rust-openstack's server manager (compute/v2/servermanager.rs)  *)
(* and of the NoAuth authentication method (auth/base.rs).                 *)
(*                                                                         *)
(* Three specifications share the variables:                               *)
(*   Spec        one listing call-site: list(), the builder methods,       *)
(*               fetch(), details(), ServerManager::get and the accessors; *)
(*   BuilderSpec the builder alone, with the caller's call history;        *)
(*   AuthSpec    NoAuth::new, get_token and get_endpoint.                  *)
(***************************************************************************)
EXTENDS Integers, Sequences, FiniteSets, TLC

VARIABLES
    builder,      \* the caller's ServerListRequest value and its state
    listings,     \* listing requests caused by that builder value
    history,      \* builder methods the caller has applied (BuilderSpec)
    lastOp,       \* the operation that ran last, and its id argument
    issued,       \* the http_get requests that operation issued
    response,     \* what the server answered to them (<<>>: no request)
    fetchResult,  \* <<>> or <<the ApiResult<ServerList> of fetch()>>
    taken,        \* indices of summaries consumed by details(self)
    detailResult, \* <<>> or <<the ApiResult<Server> of details()/get()>>
    lastRead,     \* <<the value returned>> when that operation was an accessor
    auth,         \* <<>> or <<the NoAuth object>>
    newInput,     \* <<>> or <<the endpoint string given to NoAuth::new>>
    newResult,    \* <<>> or <<the Result of NoAuth::new>>
    tokenResult,  \* <<>> or <<the Result of the last get_token>>
    endpointResult, \* <<>> or <<the Result of the last get_endpoint>>
    authCalls     \* calls made so far, and the last service_type asked for

vars == <<builder, listings, history, lastOp, issued, response, fetchResult,
          taken, detailResult, lastRead, auth, newInput, newResult,
          tokenResult, endpointResult, authCalls>>

computeVars == <<builder, listings, history, lastOp, issued, response,
                 fetchResult, taken, detailResult, lastRead>>

authVars == <<auth, newInput, newResult, tokenResult, endpointResult,
              authCalls>>

---------------------------------------------------------------------------
(* Bounds of the model. *)

\* longest sort list a builder accumulates
MaxSort == 2
\* longest page a server answers with
MaxPage == 2
\* builder calls recorded in a history (BuilderSpec)
MaxHist == 3
\* get_token / get_endpoint calls on one NoAuth object (AuthSpec)
MaxCalls == 3

---------------------------------------------------------------------------
(* Values. *)

None == [some |-> FALSE, val |-> ""]
Some(v) == [some |-> TRUE, val |-> v]

Ok(v) == [ok |-> TRUE, val |-> v]
Err(e) == [ok |-> FALSE, err |-> e]

Asc(f) == [dir |-> "Asc", field |-> f]
Desc(f) == [dir |-> "Desc", field |-> f]

Markers == {"m1", "m2"}
Limits == {1, 2}
Fields == {"name", "created"}
Sorts == {Asc(f) : f \in Fields} \cup {Desc(f) : f \in Fields}

\* The four ways an http_get fails.
ErrorKinds == {"AuthenticationError", "TransportError", "HttpStatus", "Decode"}

\* protocol::ServerSummary values a server may list.
Summaries == {[id |-> "X", name |-> "Y"], [id |-> "Z", name |-> "W"]}

\* protocol::Server values a server may answer a get with.
Servers == {[id |-> i, name |-> "srv", status |-> "ACTIVE",
             accessIPv4 |-> "10.0.0.1", accessIPv6 |-> "::1"] : i \in {"X", "Z"}}

ServerIds == {"X", "Z"}

RECURSIVE SeqsUpTo(_, _)
SeqsUpTo(S, n) ==
    IF n = 0 THEN {<<>>}
    ELSE LET shorter == SeqsUpTo(S, n - 1)
         IN shorter \cup {Append(s, x) : s \in {t \in shorter : Len(t) = n - 1}, x \in S}

Pages == SeqsUpTo(Summaries, MaxPage)

\* Outcomes of http_get(["servers"], query): a decoded ServersRoot or an error.
ListResponses == {Err(k) : k \in ErrorKinds} \cup {Ok([servers |-> p]) : p \in Pages}

\* Outcomes of http_get(["servers", id], query): a decoded ServerRoot or an error.
GetResponses == {Err(k) : k \in ErrorKinds} \cup {Ok([server |-> s]) : s \in Servers}

\* The V2ServiceWrapper of the manager; clone() copies the handle.
Service == [session |-> "session", service_type |-> "compute"]
Clone(service) == service

---------------------------------------------------------------------------
(* Query and Sort conversions. *)

Query_new == <<>>
Query_push(query, key, value) == Append(query, <<key, value>>)

UsizeToString(n) == ToString(n)

\* (field, direction) of a Sort
SortInto(sort) ==
    <<sort.field, IF sort.dir = "Asc" THEN "asc" ELSE "desc">>

---------------------------------------------------------------------------
(* ServerListRequest. *)

ServerListRequest_new(service) ==
    [service |-> service, marker |-> None, limit |-> None, sort |-> <<>>]

with_marker(self, marker) == [self EXCEPT !.marker = Some(marker)]

with_limit(self, limit) == [self EXCEPT !.limit = Some(limit)]

\* Variant of sort_by that drops an entry the list already holds.
sort_by_Dedup(self, sort) ==
    IF \E i \in 1..Len(self.sort) : self.sort[i] = sort
    THEN self
    ELSE [self EXCEPT !.sort = Append(@, sort)]

sort_by(self, sort) ==
    [self EXCEPT !.sort = Append(@, IF sort.dir = "Asc" THEN Asc(sort.field)
                                                        ELSE Desc(sort.field))]

RECURSIVE PushSorts(_, _)
PushSorts(query, sorts) ==
    IF sorts = <<>> THEN query
    ELSE LET fd == SortInto(Head(sorts))
             q1 == Query_push(query, "sort_key", fd[1])
             q2 == Query_push(q1, "sort_dir", fd[2])
         IN PushSorts(q2, Tail(sorts))

\* Variant of the query construction that pushes the limit before the marker.
FetchQuery_LimitFirst(self) ==
    LET q0 == Query_new
        q1 == IF self.limit.some
              THEN Query_push(q0, "limit", UsizeToString(self.limit.val)) ELSE q0
        q2 == IF self.marker.some THEN Query_push(q1, "marker", self.marker.val) ELSE q1
    IN PushSorts(q2, self.sort)

FetchQuery(self) ==
    LET q0 == Query_new
        q1 == IF self.marker.some THEN Query_push(q0, "marker", self.marker.val) ELSE q0
        q2 == IF self.limit.some
              THEN Query_push(q1, "limit", UsizeToString(self.limit.val)) ELSE q1
    IN PushSorts(q2, self.sort)

ListRequest(self) == [path |-> <<"servers">>, query |-> FetchQuery(self)]

Wrap(service, servers) ==
    [i \in 1..Len(servers) |-> [service |-> Clone(service), inner |-> servers[i]]]

\* Variant of fetch that asks once more when the first request fails.
ServerListRequest_fetch_Retry(self, resp) ==
    [issued |-> IF resp.ok THEN <<ListRequest(self)>>
                ELSE <<ListRequest(self), ListRequest(self)>>,
     result |-> IF resp.ok THEN Ok(Wrap(self.service, resp.val.servers))
                ELSE Err(resp.err)]

\* Variant of fetch that cuts the page down to the limit.
ServerListRequest_fetch_Truncate(self, resp) ==
    [issued |-> <<ListRequest(self)>>,
     result |-> IF resp.ok
                THEN LET page == resp.val.servers
                         n == IF self.limit.some /\ self.limit.val < Len(page)
                              THEN self.limit.val ELSE Len(page)
                     IN Ok(Wrap(self.service, SubSeq(page, 1, n)))
                ELSE Err(resp.err)]

\* Variant of fetch that answers a failed request with an empty list.
ServerListRequest_fetch_Swallow(self, resp) ==
    [issued |-> <<ListRequest(self)>>,
     result |-> IF resp.ok THEN Ok(Wrap(self.service, resp.val.servers))
                ELSE Ok(<<>>)]

\* fetch(self) against a server that answers the one request with resp.
ServerListRequest_fetch(self, resp) ==
    LET service == self.service
        query == FetchQuery(self)
    IN [issued |-> <<[path |-> <<"servers">>, query |-> query]>>,
        result |-> IF resp.ok
                   THEN Ok([i \in 1..Len(resp.val.servers) |->
                              [service |-> Clone(service),
                               inner |-> resp.val.servers[i]]])
                   ELSE Err(resp.err)]

---------------------------------------------------------------------------
(* ServerManager, ServerSummary, Server. *)

\* Variant of get_server that asks for the collection instead of the one server.
get_server_NoId(service, id, resp) ==
    [issued |-> <<[path |-> <<"servers">>, query |-> Query_new]>>,
     result |-> IF resp.ok
                THEN Ok([service |-> service, inner |-> resp.val.server])
                ELSE Err(resp.err)]

get_server(service, id, resp) ==
    [issued |-> <<[path |-> <<"servers", id>>, query |-> Query_new]>>,
     result |-> IF resp.ok
                THEN Ok([service |-> service, inner |-> resp.val.server])
                ELSE Err(resp.err)]

ServerManager_get(id, resp) == get_server(Clone(Service), id, resp)

ServerSummary_details(self, resp) ==
    get_server(Clone(self.service), self.inner.id, resp)

ServerSummary_id(self) == self.inner.id
ServerSummary_name(self) == self.inner.name
Server_id(self) == self.inner.id
Server_name(self) == self.inner.name

---------------------------------------------------------------------------
(* The caller's steps on one listing call-site. *)

NoArg == ""
Op(name, arg) == [op |-> name, arg |-> arg]

Building(req) == [state |-> "building", req |-> req]
Unborn == [state |-> "unborn", req |-> ServerListRequest_new(Service)]
Fetched == [state |-> "fetched", req |-> ServerListRequest_new(Service)]

\* The summaries the caller still holds after a successful fetch().
Held ==
    IF fetchResult # <<>> /\ fetchResult[1].ok
    THEN (DOMAIN fetchResult[1].val) \ taken
    ELSE {}

\* ServerManager::list: a new builder value.
CallList ==
    /\ builder.state = "unborn"
    /\ builder' = Building(ServerListRequest_new(Clone(Service)))
    /\ lastOp' = Op("list", NoArg)
    /\ issued' = <<>>
    /\ response' = <<>>
    /\ lastRead' = <<>>
    /\ UNCHANGED <<listings, fetchResult, taken, detailResult>>

CallWithMarker(m) ==
    /\ builder.state = "building"
    /\ builder' = Building(with_marker(builder.req, m))
    /\ lastOp' = Op("with_marker", NoArg)
    /\ issued' = <<>>
    /\ response' = <<>>
    /\ lastRead' = <<>>
    /\ UNCHANGED <<listings, fetchResult, taken, detailResult>>

CallWithLimit(l) ==
    /\ builder.state = "building"
    /\ builder' = Building(with_limit(builder.req, l))
    /\ lastOp' = Op("with_limit", NoArg)
    /\ issued' = <<>>
    /\ response' = <<>>
    /\ lastRead' = <<>>
    /\ UNCHANGED <<listings, fetchResult, taken, detailResult>>

CallSortBy(s) ==
    /\ builder.state = "building"
    /\ Len(builder.req.sort) < MaxSort
    /\ builder' = Building(sort_by(builder.req, s))
    /\ lastOp' = Op("sort_by", NoArg)
    /\ issued' = <<>>
    /\ response' = <<>>
    /\ lastRead' = <<>>
    /\ UNCHANGED <<listings, fetchResult, taken, detailResult>>

\* Variant of fetch taking the builder by reference: the value stays usable.
CallFetch_Borrowing(resp) ==
    /\ builder.state = "building"
    /\ LET r == ServerListRequest_fetch(builder.req, resp)
       IN /\ issued' = r.issued
          /\ response' = <<resp>>
          /\ fetchResult' = <<r.result>>
          /\ listings' = listings + Len(r.issued)
    /\ builder' = builder
    /\ lastOp' = Op("fetch", NoArg)
    /\ taken' = {}
    /\ lastRead' = <<>>
    /\ UNCHANGED detailResult

\* fetch(self): the builder is moved into the call.
CallFetch(resp) ==
    /\ builder.state = "building"
    /\ LET r == ServerListRequest_fetch(builder.req, resp)
       IN /\ issued' = r.issued
          /\ response' = <<resp>>
          /\ fetchResult' = <<r.result>>
          /\ listings' = listings + Len(r.issued)
    /\ builder' = Fetched
    /\ lastOp' = Op("fetch", NoArg)
    /\ taken' = {}
    /\ lastRead' = <<>>
    /\ UNCHANGED detailResult

\* details(self) on the i-th summary: the summary is moved into the call.
CallDetails(i, resp) ==
    /\ i \in Held
    /\ LET self == fetchResult[1].val[i]
           r == ServerSummary_details(self, resp)
       IN /\ issued' = r.issued
          /\ detailResult' = <<r.result>>
          /\ lastOp' = Op("details", self.inner.id)
    /\ response' = <<resp>>
    /\ taken' = taken \cup {i}
    /\ lastRead' = <<>>
    /\ UNCHANGED <<builder, listings, fetchResult>>

CallGet(id, resp) ==
    /\ LET r == ServerManager_get(id, resp)
       IN /\ issued' = r.issued
          /\ detailResult' = <<r.result>>
    /\ lastOp' = Op("get", id)
    /\ response' = <<resp>>
    /\ lastRead' = <<>>
    /\ UNCHANGED <<builder, listings, fetchResult, taken>>

CallSummaryId(i) ==
    /\ i \in Held
    /\ lastRead' = <<ServerSummary_id(fetchResult[1].val[i])>>
    /\ lastOp' = Op("ServerSummary::id", NoArg)
    /\ issued' = <<>>
    /\ response' = <<>>
    /\ UNCHANGED <<builder, listings, fetchResult, taken, detailResult>>

CallSummaryName(i) ==
    /\ i \in Held
    /\ lastRead' = <<ServerSummary_name(fetchResult[1].val[i])>>
    /\ lastOp' = Op("ServerSummary::name", NoArg)
    /\ issued' = <<>>
    /\ response' = <<>>
    /\ UNCHANGED <<builder, listings, fetchResult, taken, detailResult>>

CallServerId ==
    /\ detailResult # <<>>
    /\ detailResult[1].ok
    /\ lastRead' = <<Server_id(detailResult[1].val)>>
    /\ lastOp' = Op("Server::id", NoArg)
    /\ issued' = <<>>
    /\ response' = <<>>
    /\ UNCHANGED <<builder, listings, fetchResult, taken, detailResult>>

CallServerName ==
    /\ detailResult # <<>>
    /\ detailResult[1].ok
    /\ lastRead' = <<Server_name(detailResult[1].val)>>
    /\ lastOp' = Op("Server::name", NoArg)
    /\ issued' = <<>>
    /\ response' = <<>>
    /\ UNCHANGED <<builder, listings, fetchResult, taken, detailResult>>

---------------------------------------------------------------------------
(* Spec: one listing call-site and the detail round trips. *)

InitCompute ==
    /\ builder = Unborn
    /\ listings = 0
    /\ history = <<>>
    /\ lastOp = Op("init", NoArg)
    /\ issued = <<>>
    /\ response = <<>>
    /\ fetchResult = <<>>
    /\ taken = {}
    /\ detailResult = <<>>
    /\ lastRead = <<>>

InitAuth ==
    /\ auth = <<>>
    /\ newInput = <<>>
    /\ newResult = <<>>
    /\ tokenResult = <<>>
    /\ endpointResult = <<>>
    /\ authCalls = [token |-> 0, endpoint |-> 0, service |-> ""]

Init == InitCompute /\ InitAuth

List == CallList /\ UNCHANGED <<history, authVars>>
WithMarker == \E m \in Markers : CallWithMarker(m) /\ UNCHANGED <<history, authVars>>
WithLimit == \E l \in Limits : CallWithLimit(l) /\ UNCHANGED <<history, authVars>>
SortBy == \E s \in Sorts : CallSortBy(s) /\ UNCHANGED <<history, authVars>>
Fetch == \E resp \in ListResponses : CallFetch(resp) /\ UNCHANGED <<history, authVars>>
Details ==
    \E i \in Held, resp \in GetResponses :
        CallDetails(i, resp) /\ UNCHANGED <<history, authVars>>
Get ==
    \E id \in ServerIds, resp \in GetResponses :
        CallGet(id, resp) /\ UNCHANGED <<history, authVars>>
SummaryId == \E i \in Held : CallSummaryId(i) /\ UNCHANGED <<history, authVars>>
SummaryName == \E i \in Held : CallSummaryName(i) /\ UNCHANGED <<history, authVars>>
ServerId == CallServerId /\ UNCHANGED <<history, authVars>>
ServerName == CallServerName /\ UNCHANGED <<history, authVars>>

Next ==
    \/ List
    \/ WithMarker
    \/ WithLimit
    \/ SortBy
    \/ Fetch
    \/ Details
    \/ Get
    \/ SummaryId
    \/ SummaryName
    \/ ServerId
    \/ ServerName

Spec == Init /\ [][Next]_vars

---------------------------------------------------------------------------
(* BuilderSpec: the builder alone; the caller's calls are recorded. *)

HistMarker(m) == [op |-> "with_marker", marker |-> m, limit |-> 0, sort |-> Asc("")]
HistLimit(l) == [op |-> "with_limit", marker |-> "", limit |-> l, sort |-> Asc("")]
HistSort(s) == [op |-> "sort_by", marker |-> "", limit |-> 0, sort |-> s]

BList == CallList /\ UNCHANGED <<history, authVars>>
BWithMarker ==
    \E m \in Markers :
        /\ Len(history) < MaxHist
        /\ CallWithMarker(m)
        /\ history' = Append(history, HistMarker(m))
        /\ UNCHANGED authVars
BWithLimit ==
    \E l \in Limits :
        /\ Len(history) < MaxHist
        /\ CallWithLimit(l)
        /\ history' = Append(history, HistLimit(l))
        /\ UNCHANGED authVars
BSortBy ==
    \E s \in Sorts :
        /\ Len(history) < MaxHist
        /\ CallSortBy(s)
        /\ history' = Append(history, HistSort(s))
        /\ UNCHANGED authVars
BFetch == \E resp \in ListResponses : CallFetch(resp) /\ UNCHANGED <<history, authVars>>

BuilderNext ==
    \/ BList
    \/ BWithMarker
    \/ BWithLimit
    \/ BSortBy
    \/ BFetch

BuilderSpec == Init /\ [][BuilderNext]_vars

---------------------------------------------------------------------------
(* NoAuth. *)

\* Endpoint strings, as their lexical pieces.
Schemes == {"http", "https"}
Hosts == {"127.0.0.1", "127.0.2.1", "example.com"}
Paths == {"/v1", "/v2.1"}
PortNumber == [p \in {"8080", "80"} |-> IF p = "8080" THEN 8080 ELSE 80]
DefaultPort == [sch \in Schemes |-> IF sch = "http" THEN 80 ELSE 443]

UrlInputs ==
    { <<"http", "://", "127.0.0.1", ":", "8080", "/v1">>,
      <<"http", "://", "127.0.2.1", "/v2.1">>,
      <<"https", "://", "example.com">>,
      <<"http", "://", "example.com", ":", "80">>,
      <<"foo", " ", "bar">>,
      <<"://", "127.0.0.1", "/v1">>,
      <<"http", "://">>,
      <<"/v1">>,
      <<>> }

NoPort == [some |-> FALSE, val |-> 0]

\* IntoUrl::into_url: an absolute URL or a ParseError.
IntoUrl(s) ==
    IF Len(s) >= 3 /\ s[1] \in Schemes /\ s[2] = "://" /\ s[3] \in Hosts
    THEN LET rest == SubSeq(s, 4, Len(s))
             hasPort == Len(rest) >= 2 /\ rest[1] = ":" /\ rest[2] \in DOMAIN PortNumber
             port == IF hasPort /\ PortNumber[rest[2]] # DefaultPort[s[1]]
                     THEN Some(PortNumber[rest[2]]) ELSE NoPort
             tail == IF hasPort THEN SubSeq(rest, 3, Len(rest)) ELSE rest
         IN IF tail = <<>>
            THEN Ok([scheme |-> s[1], host |-> s[3], port |-> port, path |-> "/"])
            ELSE IF Len(tail) = 1 /\ tail[1] \in Paths
            THEN Ok([scheme |-> s[1], host |-> s[3], port |-> port, path |-> tail[1]])
            ELSE Err("ParseError")
    ELSE Err("ParseError")

\* Variant of the constructor that defers the failure to first use.
NoAuth_new_Deferred(endpoint) ==
    LET url == IntoUrl(endpoint)
    IN IF url.ok THEN Ok([endpoint |-> url.val])
       ELSE Ok([endpoint |-> [scheme |-> "", host |-> "", port |-> NoPort, path |-> ""]])

NoAuth_new(endpoint) ==
    LET url == IntoUrl(endpoint)
    IN IF url.ok THEN Ok([endpoint |-> url.val]) ELSE Err(url.err)

\* Variant of get_token whose token carries an expiration instant.
NoAuth_get_token_Expiring(self, client) ==
    [self |-> self,
     result |-> Ok([token |-> "no-auth", expires_at |-> Some("t0")])]

\* get_token(&mut self, _client): the object after the call and the result.
NoAuth_get_token(self, client) ==
    [self |-> self,
     result |-> Ok([token |-> "no-auth", expires_at |-> None])]

\* Variant of get_endpoint that resolves the service type under the endpoint.
NoAuth_get_endpoint_ByService(self, service_type, client) ==
    [self |-> self,
     result |-> Ok([self.endpoint EXCEPT !.path = service_type])]

\* get_endpoint(&mut self, _service_type, _client)
NoAuth_get_endpoint(self, service_type, client) ==
    [self |-> self, result |-> Ok(self.endpoint)]

ServiceTypes == {"compute", "foobar", "image"}
Clients == {"client1", "client2"}

New ==
    \E u \in UrlInputs :
        /\ newInput = <<>>
        /\ newInput' = <<u>>
        /\ LET r == NoAuth_new(u)
           IN /\ newResult' = <<r>>
              /\ auth' = IF r.ok THEN <<r.val>> ELSE <<>>
        /\ UNCHANGED <<tokenResult, endpointResult, authCalls, computeVars>>

GetToken ==
    \E client \in Clients :
        /\ auth # <<>>
        /\ authCalls.token < MaxCalls
        /\ LET r == NoAuth_get_token(auth[1], client)
           IN /\ auth' = <<r.self>>
              /\ tokenResult' = <<r.result>>
        /\ authCalls' = [authCalls EXCEPT !.token = @ + 1]
        /\ UNCHANGED <<newInput, newResult, endpointResult, computeVars>>

GetEndpoint ==
    \E service_type \in ServiceTypes, client \in Clients :
        /\ auth # <<>>
        /\ authCalls.endpoint < MaxCalls
        /\ LET r == NoAuth_get_endpoint(auth[1], service_type, client)
           IN /\ auth' = <<r.self>>
              /\ endpointResult' = <<r.result>>
        /\ authCalls' = [authCalls EXCEPT !.endpoint = @ + 1, !.service = service_type]
        /\ UNCHANGED <<newInput, newResult, tokenResult, computeVars>>

AuthNext ==
    \/ New
    \/ GetToken
    \/ GetEndpoint

AuthSpec == Init /\ [][AuthNext]_vars

---------------------------------------------------------------------------
(* Properties of the listing request. *)

DirString(sort) == IF sort.dir = "Asc" THEN "asc" ELSE "desc"
Decimal == [l \in Limits |-> IF l = 1 THEN "1" ELSE "2"]

\* q is: the marker pair iff marker is set, the limit pair iff limit is set,
\* then a sort_key pair and a sort_dir pair per entry of sort, and nothing else.
QueryMatches(marker, limit, sort, q) ==
    LET m == IF marker.some THEN 1 ELSE 0
        l == IF limit.some THEN 1 ELSE 0
    IN /\ Len(q) = m + l + 2 * Len(sort)
       /\ marker.some => q[1] = <<"marker", marker.val>>
       /\ limit.some => q[m + 1] = <<"limit", Decimal[limit.val]>>
       /\ \A i \in 1..Len(sort) :
            /\ q[m + l + 2 * i - 1] = <<"sort_key", sort[i].field>>
            /\ q[m + l + 2 * i] = <<"sort_dir", DirString(sort[i])>>

KeyCount(q, key) == Cardinality({i \in 1..Len(q) : q[i][1] = key})
HasPair(q, key, value) == \E i \in 1..Len(q) : q[i] = <<key, value>>

\* C1: the Query that fetch() passes to http_get holds the marker pair iff a
\* marker is set, then the limit pair iff a limit is set, then for each sort
\* entry in order ("sort_key", field) followed by ("sort_dir", "asc"/"desc"),
\* and nothing else; an empty request emits an empty query.
C1_FetchQueryExact ==
    [][(builder.state = "building" /\ lastOp'.op = "fetch")
         => /\ Len(issued') = 1
            /\ QueryMatches(builder.req.marker, builder.req.limit,
                            builder.req.sort, issued'[1].query)]_vars

\* the spec's example: marker, limit, Asc("name"), Desc("created")
C1_Witness ==
    /\ lastOp.op = "fetch"
    /\ issued # <<>>
    /\ issued[1].query = << <<"marker", "m1">>, <<"limit", "2">>,
                            <<"sort_key", "name">>, <<"sort_dir", "asc">>,
                            <<"sort_key", "created">>, <<"sort_dir", "desc">> >>

\* C2: each fetch() issues exactly one http_get, to the path ["servers"],
\* whatever the server answers: no request for a further page, no retry.
C2_OneRequestPerFetch ==
    lastOp.op = "fetch" =>
        /\ Len(issued) = 1
        /\ issued[1].path = <<"servers">>
        /\ Len(response) = 1
        /\ listings = 1

\* a page as long as the limit: more may follow, and fetch does not ask
C2_Witness ==
    /\ lastOp.op = "fetch"
    /\ Len(issued) = 1
    /\ HasPair(issued[1].query, "limit", "2")
    /\ response[1].ok
    /\ Len(response[1].val.servers) = 2

\* C3: when the http_get succeeds with N decoded summaries, fetch() returns Ok
\* with exactly N ServerSummary objects in the server's order, the i-th with
\* the id and name of the i-th decoded one: not reordered, filtered or cut to
\* the limit.
C3_FetchReturnsPage ==
    (lastOp.op = "fetch" /\ response # <<>> /\ response[1].ok) =>
        /\ fetchResult # <<>>
        /\ fetchResult[1].ok
        /\ DOMAIN fetchResult[1].val = 1..Len(response[1].val.servers)
        /\ \A i \in 1..Len(response[1].val.servers) :
             /\ ServerSummary_id(fetchResult[1].val[i]) = response[1].val.servers[i].id
             /\ ServerSummary_name(fetchResult[1].val[i]) = response[1].val.servers[i].name

\* a page of two, longer than the limit of one, second server first
C3_Witness ==
    /\ lastOp.op = "fetch"
    /\ issued # <<>>
    /\ HasPair(issued[1].query, "limit", "1")
    /\ fetchResult # <<>>
    /\ fetchResult[1].ok
    /\ DOMAIN fetchResult[1].val = 1..2
    /\ ServerSummary_id(fetchResult[1].val[1]) = "Z"
    /\ ServerSummary_id(fetchResult[1].val[2]) = "X"

\* C4: when the http_get of fetch() fails, fetch() returns that error and no
\* summary: never a part of a page, never an empty Ok in place of the error.
C4_FetchPropagatesError ==
    (lastOp.op = "fetch" /\ response # <<>> /\ ~response[1].ok) =>
        /\ fetchResult = <<Err(response[1].err)>>
        /\ Held = {}

C4_Witness ==
    /\ lastOp.op = "fetch"
    /\ response # <<>>
    /\ ~response[1].ok
    /\ response[1].err = "Decode"
    /\ fetchResult # <<>>
    /\ ~fetchResult[1].ok

Accessors == {"ServerSummary::id", "ServerSummary::name", "Server::id", "Server::name"}

\* The request and the result of details() on a summary with id lastOp.arg.
DetailsRequestOk ==
    /\ Len(issued) = 1
    /\ issued[1].path = <<"servers", lastOp.arg>>
    /\ issued[1].query = <<>>

\* C8 as stated: details() on a summary with id X issues exactly one http_get
\* to ["servers", X] with an empty query and, on success, returns a resource
\* whose id() is X; id() and name() never issue a request.
C8_Original ==
    /\ lastOp.op = "details" =>
         /\ DetailsRequestOk
         /\ detailResult[1].ok => Server_id(detailResult[1].val) = lastOp.arg
    /\ lastOp.op \in Accessors => issued = <<>>

\* C8 amended: details() on a summary with id X issues exactly one http_get to
\* ["servers", X] with an empty query and, on success, returns the resource
\* decoded from the response, so its id() is the id the server answered with
\* (X exactly when the server answered with server X); id() and name() never
\* issue a request, and a request for one server is issued only by details()
\* and ServerManager::get.
C8_DetailsRoundTrip ==
    /\ lastOp.op = "details" =>
         /\ DetailsRequestOk
         /\ response # <<>>
         /\ response[1].ok =>
              /\ detailResult[1].ok
              /\ detailResult[1].val.inner = response[1].val.server
              /\ Server_id(detailResult[1].val) = response[1].val.server.id
         /\ ~response[1].ok => detailResult = <<Err(response[1].err)>>
    /\ lastOp.op \in Accessors => issued = <<>> /\ response = <<>>
    /\ (\E i \in 1..Len(issued) : Len(issued[i].path) = 2)
         => lastOp.op \in {"details", "get"}

C8_Witness ==
    /\ lastOp.op = "details"
    /\ lastOp.arg = "X"
    /\ detailResult # <<>>
    /\ detailResult[1].ok
    /\ Server_id(detailResult[1].val) = "X"

BuilderMethods == {"with_marker", "with_limit", "sort_by"}

\* C9: a list request is building or fetched. A builder method applied to a
\* building value leaves it building; fetch() makes it fetched; a fetched
\* value takes no further method and no second fetch(), so one builder value
\* causes at most one listing request.
C9_BuilderOneShot ==
    /\ [](listings <= 1)
    /\ [](builder.state = "fetched" <=> listings = 1)
    /\ [][/\ (builder.state = "building" /\ lastOp'.op \in BuilderMethods)
               => builder'.state = "building" /\ listings' = listings
          /\ (builder.state = "building" /\ lastOp'.op = "fetch")
               => builder'.state = "fetched"
          /\ builder.state = "fetched"
               => /\ builder' = builder
                  /\ listings' = listings
                  /\ lastOp'.op \notin BuilderMethods \cup {"fetch"}
          /\ builder' # builder
               => lastOp'.op \in BuilderMethods \cup {"list", "fetch"}]_vars

\* after the fetch the caller goes on with the results; the builder is gone
C9_Witness ==
    /\ builder.state = "fetched"
    /\ listings = 1
    /\ lastOp.op = "details"

---------------------------------------------------------------------------
(* Properties of the builder against the caller's call history. *)

Calls(op) == SelectSeq(history, LAMBDA c : c.op = op)

LastMarkerArg ==
    LET cs == Calls("with_marker")
    IN IF cs = <<>> THEN None ELSE Some(cs[Len(cs)].marker)

LastLimitArg ==
    LET cs == Calls("with_limit")
    IN IF cs = <<>> THEN None ELSE Some(cs[Len(cs)].limit)

SortArgs ==
    LET cs == Calls("sort_by")
    IN [i \in 1..Len(cs) |-> cs[i].sort]

\* C10: the query fetch() emits depends only on the argument of the last
\* with_marker, the argument of the last with_limit and the sort_by arguments
\* in call order: with_marker and with_limit overwrite, sort_by appends
\* without deduplication, and none touches the other fields. The query holds
\* at most one marker pair, at most one limit pair, and as many sort_key
\* pairs as sort_dir pairs as sort_by calls.
C10_QueryFromLastArgs ==
    /\ builder.state = "building" =>
         /\ builder.req.marker = LastMarkerArg
         /\ builder.req.limit = LastLimitArg
         /\ builder.req.sort = SortArgs
    /\ lastOp.op = "fetch" =>
         /\ Len(issued) = 1
         /\ QueryMatches(LastMarkerArg, LastLimitArg, SortArgs, issued[1].query)
         /\ KeyCount(issued[1].query, "marker") <= 1
         /\ KeyCount(issued[1].query, "limit") <= 1
         /\ KeyCount(issued[1].query, "sort_key") = Len(Calls("sort_by"))
         /\ KeyCount(issued[1].query, "sort_dir") = Len(Calls("sort_by"))

\* the same sort given twice, around a with_limit
C10_Witness ==
    /\ lastOp.op = "fetch"
    /\ history = <<HistSort(Desc("name")), HistLimit(2), HistSort(Desc("name"))>>

---------------------------------------------------------------------------
(* Properties of NoAuth. *)

PortParts == {<<>>} \cup {<<":", p>> : p \in DOMAIN PortNumber}
PathParts == {<<>>} \cup {<<p>> : p \in Paths}

\* The well-formed absolute URLs over the lexical pieces.
ValidUrls ==
    {<<sch, "://", h>> \o pp \o pa :
        sch \in Schemes, h \in Hosts, pp \in PortParts, pa \in PathParts}

\* C5: for every valid absolute URL u, NoAuth::new(u) succeeds, and after any
\* sequence of get_token and get_endpoint calls get_endpoint(s) returns Ok of
\* the URL of u for every service type s; the stored endpoint never changes.
C5_EndpointFixed ==
    (newInput # <<>> /\ newInput[1] \in ValidUrls) =>
        /\ newResult[1].ok
        /\ auth = <<[endpoint |-> IntoUrl(newInput[1]).val]>>
        /\ authCalls.endpoint > 0 => endpointResult = <<Ok(IntoUrl(newInput[1]).val)>>

C5_Witness ==
    /\ newInput = << <<"http", "://", "127.0.0.1", ":", "8080", "/v1">> >>
    /\ authCalls.token >= 1
    /\ authCalls.endpoint >= 2
    /\ authCalls.service = "foobar"
    /\ endpointResult # <<>>
    /\ endpointResult[1].ok
    /\ endpointResult[1].val.path = "/v1"
    /\ endpointResult[1].val.port = Some(8080)

\* C6: for every malformed endpoint string NoAuth::new returns an error and
\* no NoAuth object exists, so no get_token or get_endpoint is ever made on it.
C6_MalformedFailsAtConstruction ==
    (newInput # <<>> /\ newInput[1] \notin ValidUrls) =>
        /\ newResult # <<>>
        /\ ~newResult[1].ok
        /\ auth = <<>>
        /\ tokenResult = <<>>
        /\ endpointResult = <<>>
        /\ authCalls.token = 0
        /\ authCalls.endpoint = 0

C6_Witness ==
    /\ newInput = << <<"foo", " ", "bar">> >>
    /\ newResult # <<>>
    /\ ~newResult[1].ok

\* C7: get_token on NoAuth returns Ok with token "no-auth" and no expiration
\* on every call, however many, in any interleaving with get_endpoint.
C7_TokenAlwaysNoAuth ==
    authCalls.token > 0 =>
        /\ tokenResult # <<>>
        /\ tokenResult[1].ok
        /\ tokenResult[1].val.token = "no-auth"
        /\ ~tokenResult[1].val.expires_at.some

C7_Witness ==
    /\ authCalls.token >= 2
    /\ authCalls.endpoint >= 1
    /\ tokenResult # <<>>
    /\ tokenResult[1].ok

====
